---------------------------- MODULE Spec2Model ----------------------------
(***************************************************************************)
(* The contacts service of src/main.py over the table of src/db.py.        *)
(*                                                                         *)
(* Strings are sequences of one-character strings; None is the Python      *)
(* None of an absent optional value.  A calendar date is <<year, month,    *)
(* day>>.  The store is the set of rows of the contacts table.             *)
(***************************************************************************)
EXTENDS Integers, Sequences, FiniteSets, TLC

VARIABLES
    store,      \* rows of the contacts table
    nextId,     \* next value of the primary-key sequence
    issued,     \* ids returned by successful POST /contacts so far
    resp,       \* the last request and its response
    nreq,       \* requests served so far
    today,      \* date.today() of the /birthday request
    bresp,      \* response of GET /birthday
    creq,       \* the two concurrent requests, by session
    pc,         \* position of each concurrent handler
    snap,       \* the row each concurrent handler loaded
    cstatus,    \* status each concurrent handler answered with
    store0      \* the table before the concurrent requests

vars == <<store, nextId, issued, resp, nreq, today, bresp,
          creq, pc, snap, cstatus, store0>>

seqVars == <<store, nextId, issued, resp, nreq>>
bdayVars == <<today, bresp>>
concVars == <<creq, pc, snap, cstatus, store0>>

(***************************************************************************)
(* Bounds of the model.                                                    *)
(***************************************************************************)
MaxRequests == 3

(***************************************************************************)
(* Program constants.                                                      *)
(***************************************************************************)
NameMin == 3
NameMax == 50
LastnameMin == 3
LastnameMax == 50
PhoneMin == 12
PhoneMax == 20
DescriptionMax == 250
ResponsePhoneMin == 13
HTTP_200_OK == 200
HTTP_404_NOT_FOUND == 404
HTTP_422_UNPROCESSABLE_ENTITY == 422
HTTP_500_INTERNAL_SERVER_ERROR == 500

(***************************************************************************)
(* Values.                                                                 *)
(***************************************************************************)
None == <<"None">>
NoDate == <<0, 0, 0>>
Rep(c, n) == [i \in 1..n |-> c]
Truthy(v) == v # None /\ v # <<>>
TruthyDate(d) == d # NoDate

FieldNames == {"name", "lastname", "email", "phone", "born_date", "description"}

NoRow ==
    [id |-> 0, name |-> None, lastname |-> None, email |-> None,
     phone |-> None, born_date |-> NoDate, description |-> None]

NoParams ==
    [name |-> None, lastname |-> None, email |-> None,
     phone |-> None, born_date |-> NoDate, description |-> None]

Fields(r) == [f \in FieldNames |-> r[f]]

(***************************************************************************)
(* Calendar dates: datetime.date.                                          *)
(***************************************************************************)
IsLeap(y) == (y % 4 = 0 /\ y % 100 # 0) \/ y % 400 = 0

DaysInMonth(y, m) ==
    IF m = 2 THEN (IF IsLeap(y) THEN 29 ELSE 28)
    ELSE IF m \in {4, 6, 9, 11} THEN 30 ELSE 31

ValidDate(d) ==
    /\ d[1] >= 1
    /\ d[2] \in 1..12
    /\ d[3] >= 1
    /\ d[3] <= DaysInMonth(d[1], d[2])

DateLE(a, b) ==
    \/ a[1] < b[1]
    \/ a[1] = b[1] /\ a[2] < b[2]
    \/ a[1] = b[1] /\ a[2] = b[2] /\ a[3] <= b[3]

NextDay(d) ==
    IF d[3] < DaysInMonth(d[1], d[2]) THEN <<d[1], d[2], d[3] + 1>>
    ELSE IF d[2] < 12 THEN <<d[1], d[2] + 1, 1>>
    ELSE <<d[1] + 1, 1, 1>>

RECURSIVE PlusDays(_, _)
PlusDays(d, n) == IF n = 0 THEN d ELSE PlusDays(NextDay(d), n - 1)

(***************************************************************************)
(* The phone pattern of ContactModel, matched as re.match does: anchored   *)
(* at the start, free at the end.  Each step maps the set of positions the *)
(* match can have reached to the set after one more element of the         *)
(* pattern, so the result is non-empty exactly when some backtracking      *)
(* path of the pattern succeeds.                                           *)
(***************************************************************************)
Digits == {"0", "1", "2", "3", "4", "5", "6", "7", "8", "9"}
Whitespace == {" ", "\t"}

At(s, p, C) == p <= Len(s) /\ s[p] \in C

\* c? for a character class C
Opt(s, P, C) == P \cup {p + 1 : p \in {q \in P : At(s, q, C)}}

\* \d{2,3}
Digits23(s, P) ==
    {p + 2 : p \in {q \in P : At(s, q, Digits) /\ At(s, q + 1, Digits)}}
    \cup
    {p + 3 : p \in {q \in P : At(s, q, Digits) /\ At(s, q + 1, Digits)
                                /\ At(s, q + 2, Digits)}}

\* (\d{2,3}\-?)
Group(s, P) == Opt(s, Digits23(s, P), {"-"})

\* ^\+?\d{2,3}\(?\d{2,3}\)?\s?(\d{2,3}\-?){2}\d{2,3}
PatternEnds(s) ==
    LET p1 == Opt(s, {1}, {"+"})
        p2 == Digits23(s, p1)
        p3 == Opt(s, p2, {"("})
        p4 == Digits23(s, p3)
        p5 == Opt(s, p4, {")"})
        p6 == Opt(s, p5, Whitespace)
        p7 == Group(s, Group(s, p6))
    IN  Digits23(s, p7)

re_fullmatch(s) == (Len(s) + 1) \in PatternEnds(s)

re_match(s) == PatternEnds(s) # {}

(***************************************************************************)
(* EmailStr: the shape local@domain with a dotted domain.                  *)
(***************************************************************************)
EmailStr(e) ==
    /\ e # None
    /\ \E k \in 1..Len(e) :
          /\ e[k] = "@"
          /\ \A j \in 1..Len(e) : e[j] = "@" => j = k
          /\ k > 1
          /\ \E j \in (k + 2)..(Len(e) - 1) :
                /\ e[j] = "."
                /\ e[j - 1] # "."
                /\ e[j + 1] # "."
          /\ e[k + 1] # "."
          /\ e[Len(e)] # "."

(***************************************************************************)
(* ContactModel: the fields of a create body that fail validation.         *)
(***************************************************************************)
phone_number_must_have_12_digits(phone) == re_match(phone)

ContactModel(b) ==
    (IF Len(b.name) < NameMin \/ Len(b.name) > NameMax
        THEN {"name"} ELSE {})
    \cup (IF Len(b.lastname) < LastnameMin \/ Len(b.lastname) > LastnameMax
        THEN {"lastname"} ELSE {})
    \cup (IF ~EmailStr(b.email) THEN {"email"} ELSE {})
    \cup (IF \/ Len(b.phone) < PhoneMin
             \/ Len(b.phone) > PhoneMax
             \/ ~phone_number_must_have_12_digits(b.phone)
        THEN {"phone"} ELSE {})
    \cup (IF ~ValidDate(b.born_date) THEN {"born_date"} ELSE {})
    \cup (IF b.description # None /\ Len(b.description) > DescriptionMax
        THEN {"description"} ELSE {})

(***************************************************************************)
(* ResponseContactModel: the fields of a row that fail validation of the   *)
(* response of GET /contacts/{id}.                                         *)
(***************************************************************************)
ResponseContactModel(r) ==
    (IF r.id < 1 THEN {"id"} ELSE {})
    \cup (IF r.name = None \/ Len(r.name) < NameMin \/ Len(r.name) > NameMax
        THEN {"name"} ELSE {})
    \cup (IF \/ r.lastname = None
             \/ Len(r.lastname) < LastnameMin
             \/ Len(r.lastname) > LastnameMax
        THEN {"lastname"} ELSE {})
    \cup (IF ~EmailStr(r.email) THEN {"email"} ELSE {})
    \cup (IF \/ r.phone = None
             \/ Len(r.phone) < ResponsePhoneMin
             \/ Len(r.phone) > PhoneMax
        THEN {"phone"} ELSE {})
    \cup (IF ~ValidDate(r.born_date) THEN {"born_date"} ELSE {})
    \cup (IF r.description # None /\ Len(r.description) > DescriptionMax
        THEN {"description"} ELSE {})

(***************************************************************************)
(* The contacts table and the ORM session.                                 *)
(***************************************************************************)
Ids(st) == {r.id : r \in st}

\* db.query(Contact).filter(Contact.id == contact_id).first()
QueryFirst(st, contact_id) ==
    IF \E r \in st : r.id = contact_id
        THEN CHOOSE r \in st : r.id = contact_id
        ELSE NoRow

\* db.add + db.commit + db.refresh: the row gets the next value of the
\* primary-key sequence.
Insert(st, id, fields) ==
    st \cup {[id |-> id, name |-> fields.name, lastname |-> fields.lastname,
              email |-> fields.email, phone |-> fields.phone,
              born_date |-> fields.born_date,
              description |-> fields.description]}

\* Contact(...) of create_new_contact, with two fields exchanged
NewContactSwapped(contact) ==
    [name |-> contact.lastname, lastname |-> contact.name,
     email |-> contact.email, phone |-> contact.phone,
     born_date |-> contact.born_date, description |-> contact.description]

\* Contact(name=contact.name, ...) of create_new_contact
NewContact(contact) ==
    [name |-> contact.name, lastname |-> contact.lastname,
     email |-> contact.email, phone |-> contact.phone,
     born_date |-> contact.born_date, description |-> contact.description]

\* the assignments of update_contact, with the emptiness test of name lost
ApplyParamsNoTest(contact, p) ==
    [contact EXCEPT
        !.name = p.name,
        !.lastname = IF Truthy(p.lastname) THEN p.lastname ELSE @,
        !.email = IF Truthy(p.email) THEN p.email ELSE @,
        !.phone = IF Truthy(p.phone) THEN p.phone ELSE @,
        !.born_date = IF TruthyDate(p.born_date) THEN p.born_date ELSE @,
        !.description = IF Truthy(p.description) THEN p.description ELSE @]

\* if name: contact.name = name ... if description: contact.description = ...
ApplyParams(contact, p) ==
    [contact EXCEPT
        !.name = IF Truthy(p.name) THEN p.name ELSE @,
        !.lastname = IF Truthy(p.lastname) THEN p.lastname ELSE @,
        !.email = IF Truthy(p.email) THEN p.email ELSE @,
        !.phone = IF Truthy(p.phone) THEN p.phone ELSE @,
        !.born_date = IF TruthyDate(p.born_date) THEN p.born_date ELSE @,
        !.description = IF Truthy(p.description) THEN p.description ELSE @]

\* db.commit() writing back every column of the loaded object
FlushWholeRow(st, loaded, changed) ==
    IF changed = loaded THEN [ok |-> TRUE, store |-> st]
    ELSE IF loaded.id \notin Ids(st) THEN [ok |-> FALSE, store |-> st]
    ELSE [ok |-> TRUE,
          store |-> {r \in st : r.id # loaded.id} \cup {changed}]

\* db.commit() of update_contact: the session's flush issues
\* UPDATE ... SET <the columns whose value differs from the loaded one>
\* WHERE id = <loaded id>; no column differs, no statement; a statement that
\* matches no row raises (StaleDataError).
Flush(st, loaded, changed) ==
    LET cols == {f \in FieldNames : changed[f] # loaded[f]}
    IN  IF cols = {} THEN [ok |-> TRUE, store |-> st]
        ELSE IF loaded.id \notin Ids(st) THEN [ok |-> FALSE, store |-> st]
        ELSE [ok |-> TRUE,
              store |-> {IF r.id = loaded.id
                            THEN [f \in DOMAIN r |->
                                    IF f \in cols THEN changed[f] ELSE r[f]]
                            ELSE r : r \in st}]

\* db.delete(item) + db.commit()
DeleteRow(st, item) == {r \in st : r.id # item.id}

(***************************************************************************)
(* Responses.                                                              *)
(***************************************************************************)
MsgNone == "(none)"
MsgUpdated == "record was succefully updated"
MsgDeleted == "Item Deleted Succesfully"
MsgNotFound == "Not Found"
MsgDetailNotFound == "Not found"
MsgUnexpected == "An unexpected error occurred"
MsgInvalid == "validation error"

Response(op, id, req, status, row, errors, msg) ==
    [op |-> op, id |-> id, req |-> req, status |-> status, row |-> row,
     errors |-> errors, msg |-> msg]

\* RequestValidationError of the framework
validation_error(op, id, req, errors) ==
    Response(op, id, req, HTTP_422_UNPROCESSABLE_ENTITY, NoRow, errors,
             MsgInvalid)

\* raise HTTPException(...) through http_exception_handler
http_exception_handler(op, id, req, status, detail) ==
    Response(op, id, req, status, NoRow, {}, detail)

\* any other exception through unexpected_exception_handler
unexpected_exception_handler(op, id, req) ==
    Response(op, id, req, HTTP_500_INTERNAL_SERVER_ERROR, NoRow, {},
             MsgUnexpected)

\* the query parameter email: EmailStr = None
QueryErrors(p) ==
    IF p.email # None /\ ~EmailStr(p.email) THEN {"email"} ELSE {}

(***************************************************************************)
(* GET /contacts/{contact_id}                                              *)
(***************************************************************************)
ReadContactResponse(st, contact_id) ==
    LET contact == QueryFirst(st, contact_id)
    IN  IF contact = NoRow
            THEN http_exception_handler("GET", contact_id, NoParams,
                                        HTTP_404_NOT_FOUND, MsgDetailNotFound)
        ELSE IF ResponseContactModel(contact) # {}
            THEN unexpected_exception_handler("GET", contact_id, NoParams)
        ELSE Response("GET", contact_id, NoParams, HTTP_200_OK, contact, {},
                      MsgNone)

(***************************************************************************)
(* Request inputs.                                                         *)
(***************************************************************************)
Ann == <<"A", "n", "n">>
Bob == <<"B", "o", "b">>
Al == <<"A", "l">>
Zed == <<"Z", "e", "d">>
Lee == <<"L", "e", "e">>
Ray == <<"R", "a", "y">>
MailA == <<"a", "@", "b", ".", "c", "o">>
MailZ == <<"z", "@", "b", ".", "c", "o">>
MailBad == <<"a", "b", ".", "c", "o">>
Phone13 == <<"+", "1", "2", "3", "4", "5", "6", "7", "8", "9", "0", "1", "2">>
Phone12 == <<"1", "2", "3", "4", "5", "6", "7", "8", "9", "0", "1", "2">>
PhoneAbc == <<"a", "b", "c">>
PhoneExample == <<"+", "1", "(", "2", "3", "4", ")", "5", "6", "7", "-", "8", "9", "0", "1">>
PhoneDashed == <<"+", "1", "2", "(", "3", "4", "5", ")", "6", "7", "8", "-", "9", "0", "-", "1", "2">>
Hi == <<"h", "i">>
Born1 == <<1990, 6, 5>>
Born2 == <<2000, 2, 29>>
BornBad == <<2023, 2, 30>>

PathIds == {1, 2}

BaseBody ==
    [name |-> Ann, lastname |-> Lee, email |-> MailA, phone |-> Phone13,
     born_date |-> Born1, description |-> None]

PostBodies ==
    { BaseBody,
      [name |-> Bob, lastname |-> Ray, email |-> MailZ, phone |-> PhoneDashed,
       born_date |-> Born2, description |-> Hi],
      [BaseBody EXCEPT !.phone = Phone12],
      [BaseBody EXCEPT !.phone = PhoneAbc],
      [BaseBody EXCEPT !.name = Al],
      [BaseBody EXCEPT !.name = Rep("n", NameMax)],
      [BaseBody EXCEPT !.name = Rep("n", NameMax + 1)],
      [BaseBody EXCEPT !.email = MailBad],
      [BaseBody EXCEPT !.born_date = BornBad],
      [BaseBody EXCEPT !.description = Rep("d", DescriptionMax + 1)] }

PatchParams ==
    { NoParams,
      [NoParams EXCEPT !.name = Bob],
      [NoParams EXCEPT !.name = <<>>, !.lastname = Ray],
      [NoParams EXCEPT !.name = Al],
      [NoParams EXCEPT !.email = MailZ, !.description = Hi],
      [NoParams EXCEPT !.email = MailBad, !.name = Bob],
      [NoParams EXCEPT !.phone = PhoneAbc],
      [NoParams EXCEPT !.born_date = Born2, !.description = <<>>] }

SearchParams ==
    { NoParams,
      [NoParams EXCEPT !.name = Ann],
      [NoParams EXCEPT !.name = Bob, !.email = MailA],
      [NoParams EXCEPT !.name = Zed],
      [NoParams EXCEPT !.lastname = Lee, !.email = MailZ],
      [NoParams EXCEPT !.email = MailZ] }

(***************************************************************************)
(* The request handlers, one request at a time.                            *)
(***************************************************************************)
Served(r) ==
    /\ nreq < MaxRequests
    /\ nreq' = nreq + 1
    /\ resp' = r
    /\ UNCHANGED <<bdayVars, concVars>>

\* POST /contacts
create_new_contact(contact) ==
    LET errors == ContactModel(contact)
    IN  IF errors # {}
            THEN /\ Served(validation_error("POST", 0, contact, errors))
                 /\ UNCHANGED <<store, nextId, issued>>
            ELSE LET new_contact == Insert({}, nextId, NewContact(contact))
                     row == CHOOSE r \in new_contact : TRUE
                 IN  /\ store' = store \cup new_contact
                     /\ nextId' = nextId + 1
                     /\ issued' = Append(issued, row.id)
                     /\ Served(Response("POST", 0, contact, HTTP_200_OK, row,
                                        {}, MsgNone))

\* GET /contacts/{contact_id}
read_contact(contact_id) ==
    /\ Served(ReadContactResponse(store, contact_id))
    /\ UNCHANGED <<store, nextId, issued>>

\* PATCH /contacts/{contact_id}
update_contact(contact_id, p) ==
    LET errors == QueryErrors(p)
        contact == QueryFirst(store, contact_id)
        flushed == Flush(store, contact, ApplyParams(contact, p))
    IN  IF errors # {}
            THEN /\ Served(validation_error("PATCH", contact_id, p, errors))
                 /\ UNCHANGED <<store, nextId, issued>>
        ELSE IF contact = NoRow \/ ~flushed.ok
            THEN /\ Served(unexpected_exception_handler("PATCH", contact_id, p))
                 /\ UNCHANGED <<store, nextId, issued>>
        ELSE /\ store' = flushed.store
             /\ Served(Response("PATCH", contact_id, p, HTTP_200_OK, NoRow, {},
                                MsgUpdated))
             /\ UNCHANGED <<nextId, issued>>

\* DELETE /contacts/{contact_id}
delete_contact(contact_id) ==
    LET item == QueryFirst(store, contact_id)
    IN  IF item = NoRow
            THEN /\ Served(unexpected_exception_handler("DELETE", contact_id,
                                                        NoParams))
                 /\ UNCHANGED <<store, nextId, issued>>
            ELSE /\ store' = DeleteRow(store, item)
                 /\ Served(Response("DELETE", contact_id, NoParams,
                                    HTTP_200_OK, NoRow, {}, MsgDeleted))
                 /\ UNCHANGED <<nextId, issued>>

\* the rows .filter(...) selects in search_contact: by the first of name,
\* lastname, email that is not empty
SearchField(p) ==
    IF Truthy(p.name) THEN "name"
    ELSE IF Truthy(p.lastname) THEN "lastname"
    ELSE IF Truthy(p.email) THEN "email"
    ELSE "none"

SearchMatches(st, p) ==
    LET f == SearchField(p)
    IN  IF f = "none" THEN {} ELSE {r \in st : r[f] = p[f]}

\* GET /search; .first() takes a row in the table's own order, which the
\* query leaves open (no ORDER BY), and is None when no row matches.
search_contact(p) ==
    LET errors == QueryErrors(p)
        rows == SearchMatches(store, p)
    IN  /\ UNCHANGED <<store, nextId, issued>>
        /\ IF errors # {}
               THEN Served(validation_error("SEARCH", 0, p, errors))
           ELSE IF SearchField(p) = "none"
               THEN Served(Response("SEARCH", 0, p, HTTP_200_OK, NoRow, {},
                                    MsgNotFound))
           ELSE IF rows = {}
               THEN Served(Response("SEARCH", 0, p, HTTP_200_OK, NoRow, {},
                                    MsgNone))
           ELSE \E r \in rows :
                   Served(Response("SEARCH", 0, p, HTTP_200_OK, r, {}, MsgNone))

NoResponse == Response("none", 0, NoParams, 0, NoRow, {}, MsgNone)

InitOther ==
    /\ today = NoDate
    /\ bresp = [status |-> 0, happy |-> {}]
    /\ creq = <<>>
    /\ pc = <<>>
    /\ snap = <<>>
    /\ cstatus = <<>>
    /\ store0 = {}

Init ==
    /\ store = {}
    /\ nextId = 1
    /\ issued = <<>>
    /\ resp = NoResponse
    /\ nreq = 0
    /\ InitOther

Post == \E contact \in PostBodies : create_new_contact(contact)
Get == \E contact_id \in PathIds : read_contact(contact_id)
Patch == \E contact_id \in PathIds, p \in PatchParams : update_contact(contact_id, p)
Delete == \E contact_id \in PathIds : delete_contact(contact_id)
Search == \E p \in SearchParams : search_contact(p)

Next == Post \/ Get \/ Patch \/ Delete \/ Search

Spec == Init /\ [][Next]_vars

(***************************************************************************)
(* Claims about the handlers, one request at a time (Spec).                *)
(***************************************************************************)
ParamGiven(p, f) ==
    IF f = "born_date" THEN p[f] # NoDate ELSE p[f] # None /\ p[f] # <<>>

RowOf(st, id) == CHOOSE r \in st : r.id = id

\* C1: DELETE /contacts/{id} for an id that is not in the store answers 404,
\* not 500, and leaves the store unchanged.
C1_DeleteMissingIs404 ==
    [][(resp'.op = "DELETE" /\ resp'.id \notin Ids(store))
          => (resp'.status = HTTP_404_NOT_FOUND /\ store' = store)]_vars

\* C2: a GET /contacts/{id} that directly follows the successful POST that
\* returned this id succeeds and returns the created record, id and fields.
C2_GetAfterPostReturnsRecord ==
    [][(/\ resp.op = "POST"
        /\ resp.status = HTTP_200_OK
        /\ resp'.op = "GET"
        /\ resp'.id = resp.row.id)
          => (resp'.status = HTTP_200_OK /\ resp'.row = resp.row)]_vars

C5_PatchMissingIs404 ==
    [][(resp'.op = "PATCH" /\ resp'.id \notin Ids(store))
          => (resp'.status = HTTP_404_NOT_FOUND /\ store' = store)]_vars

\* C6: every stored contact satisfies the field constraints of the data
\* model, after any sequence of POST and PATCH requests.
C6_StoredContactsValid ==
    \A r \in store : ContactModel(r) = {}

\* C7: GET /search matches on the first non-empty parameter in the order
\* name, lastname, email and returns a stored contact equal on that field;
\* when there is none, the response is the "not found" message.
C7_SearchFirstOrNotFound ==
    (resp.op = "SEARCH" /\ QueryErrors(resp.req) = {})
        => LET p == resp.req
               rows ==
                   IF ParamGiven(p, "name")
                       THEN {r \in store : r.name = p.name}
                   ELSE IF ParamGiven(p, "lastname")
                       THEN {r \in store : r.lastname = p.lastname}
                   ELSE IF ParamGiven(p, "email")
                       THEN {r \in store : r.email = p.email}
                   ELSE {}
           IN  /\ resp.status = HTTP_200_OK
               /\ IF rows = {}
                     THEN resp.msg = MsgNotFound /\ resp.row = NoRow
                     ELSE resp.row \in rows

(***************************************************************************)
(* Phone validation of POST /contacts over many phones (SpecPhone): one    *)
(* create request whose body is valid but for its phone.                   *)
(***************************************************************************)
MaxRun == 3

Opt1(flag, c) == IF flag = 1 THEN <<c>> ELSE <<>>

PhoneOf(plus, a, lp, rp, ws, h, e, trail) ==
    Opt1(plus, "+") \o Rep("4", a) \o Opt1(lp, "(") \o Rep("5", 3)
    \o Opt1(rp, ")") \o Opt1(ws, " ") \o Rep("6", 3) \o Opt1(h, "-")
    \o Rep("7", 2) \o Opt1(h, "-") \o Rep("8", e) \o trail

Trails == {<<>>, <<"x">>, <<"x", "9", "-", "y", "9", "z">>}

PhoneInputs ==
    {PhoneOf(plus, a, lp, rp, ws, h, e, trail) :
        plus \in 0..1, a \in 1..MaxRun, lp \in 0..1, rp \in 0..1,
        ws \in 0..1, h \in 0..1, e \in 1..MaxRun, trail \in Trails}
    \cup {PhoneExample, PhoneAbc, Phone12, Phone13, PhoneDashed}

NextPhone ==
    \E phone \in PhoneInputs :
        /\ nreq = 0
        /\ create_new_contact([BaseBody EXCEPT !.phone = phone])

SpecPhone == Init /\ [][NextPhone]_vars

\* The strings the phone pattern describes, written out: an optional "+",
\* 2-3 digits, an optional "(", 2-3 digits, an optional ")", an optional
\* whitespace, two groups of 2-3 digits each with an optional "-", 2-3 digits.
Shape(plus, a, lp, b, rp, ws, c, h1, d, h2, e) ==
    Rep("+", plus) \o Rep("d", a) \o Rep("(", lp) \o Rep("d", b)
    \o Rep(")", rp) \o Rep("s", ws) \o Rep("d", c) \o Rep("-", h1)
    \o Rep("d", d) \o Rep("-", h2) \o Rep("d", e)

CharsOf(k) ==
    IF k = "d" THEN Digits ELSE IF k = "s" THEN Whitespace ELSE {k}

HasPatternPrefix(s) ==
    \E plus, lp, rp, ws, h1, h2 \in 0..1, a, b, c, d, e \in 2..3 :
        LET k == Shape(plus, a, lp, b, rp, ws, c, h1, d, h2, e)
        IN  /\ Len(k) <= Len(s)
            /\ \A i \in 1..Len(k) : s[i] \in CharsOf(k[i])

PhoneAccepted == resp.status = HTTP_200_OK /\ resp.row \in store

PhoneRejected ==
    /\ resp.status = HTTP_422_UNPROCESSABLE_ENTITY
    /\ resp.errors = {"phone"}
    /\ store = {}

PhoneRule ==
    LET phone == resp.req.phone
    IN  IF Len(phone) \in PhoneMin..PhoneMax /\ HasPatternPrefix(phone)
            THEN PhoneAccepted
            ELSE PhoneRejected

\* C9 as stated: POST /contacts accepts a phone exactly when it is 12 to 20
\* characters long and a prefix of it matches the pattern; +1(234)567-8901
\* passes and abc is rejected with an error on the field phone.
C9_PhoneRuleAndExamples ==
    resp.op = "POST"
        => /\ PhoneRule
           /\ resp.req.phone = PhoneExample => PhoneAccepted
           /\ resp.req.phone = PhoneAbc => PhoneRejected

\* C9 as amended: the same rule; under it +1(234)567-8901 is rejected with
\* an error on the field phone (one digit follows the "+", the pattern asks
\* for two or three), and so is abc.
C9_PhoneRule ==
    resp.op = "POST"
        => /\ PhoneRule
           /\ resp.req.phone = PhoneExample => PhoneRejected
           /\ resp.req.phone = PhoneAbc => PhoneRejected

\* C9 witness: the create request with phone +1(234)567-8901 was rejected.
C9_Witness ==
    /\ resp.op = "POST"
    /\ resp.req.phone = PhoneExample
    /\ PhoneRejected

(***************************************************************************)
(* GET /birthday as a function of the stored contacts and of today's date  *)
(* (SpecBirthday).                                                         *)
(***************************************************************************)
MaxContacts == 2

BornDates ==
    { <<1990, 6, 5>>, <<1990, 6, 10>>, <<1990, 5, 31>>, <<1990, 6, 1>>,
      <<1990, 6, 7>>, <<1990, 6, 8>>, <<2000, 2, 29>>, <<1985, 1, 1>>,
      <<1985, 12, 31>>, <<1991, 1, 3>> }

Todays ==
    { <<2024, 6, 1>>, <<2023, 6, 1>>, <<2024, 2, 25>>, <<2023, 2, 25>>,
      <<2023, 12, 28>>, <<2024, 12, 28>> }

\* the stores of n contacts created one after the other from valid bodies
StoresOf(n) ==
    { {Insert({}, i, [BaseBody EXCEPT !.born_date = b[i]])
          : i \in 1..n} : b \in [1..n -> BornDates] }

Flatten(rowsets) == UNION rowsets

BirthdayStores ==
    UNION { {Flatten(st) : st \in StoresOf(n)} : n \in 0..MaxContacts }

\* datetime(date.today().year, user.born_date.month, user.born_date.day)
bday(user, t) == <<t[1], user.born_date[2], user.born_date[3]>>

\* GET /birthday: the constructor of datetime raises for a day the month
\* does not have in today's year, and the request ends there.
get_birthday_week ==
    LET users == store
        week == PlusDays(today, 6)
    IN  /\ bresp.status = 0
        /\ bresp' =
              IF \E user \in users : ~ValidDate(bday(user, today))
                  THEN [status |-> HTTP_500_INTERNAL_SERVER_ERROR,
                        happy |-> {}]
                  ELSE [status |-> HTTP_200_OK,
                        happy |-> {user \in users :
                                      /\ DateLE(today, bday(user, today))
                                      /\ DateLE(bday(user, today), week)}]
        /\ UNCHANGED <<seqVars, today, concVars>>

InitBirthday ==
    /\ store \in BirthdayStores
    /\ nextId = Cardinality(store) + 1
    /\ issued = [i \in 1..Cardinality(store) |-> i]
    /\ resp = NoResponse
    /\ nreq = 0
    /\ today \in Todays
    /\ bresp = [status |-> 0, happy |-> {}]
    /\ creq = <<>>
    /\ pc = <<>>
    /\ snap = <<>>
    /\ cstatus = <<>>
    /\ store0 = {}

NextBirthday == get_birthday_week

SpecBirthday == InitBirthday /\ [][NextBirthday]_vars

\* the birthday of a contact in today's year lies in [today, today+6 days]
InBirthdayWeek(user, t) ==
    \E k \in 0..6 : PlusDays(t, k) = <<t[1], user.born_date[2], user.born_date[3]>>

\* C8: for every set of stored contacts and every today, GET /birthday
\* completes and returns exactly the contacts whose birthday in today's year
\* lies in [today, today+6 days], contacts born on Feb 29 included.
C8_BirthdayWeek ==
    bresp.status # 0
        => /\ bresp.status = HTTP_200_OK
           /\ bresp.happy = {user \in store : InBirthdayWeek(user, today)}

(***************************************************************************)
(* Two requests on the same contact, run concurrently (SpecConc).  Each    *)
(* handler loads the row in its own session and commits later; nothing     *)
(* locks the row in between.                                               *)
(***************************************************************************)
Sessions == {1, 2}

ConcId == 1

ConcPatches ==
    { [NoParams EXCEPT !.name = Bob],
      [NoParams EXCEPT !.name = Ann, !.lastname = Zed],
      [NoParams EXCEPT !.lastname = Ray],
      [NoParams EXCEPT !.name = Bob, !.lastname = Ray],
      [NoParams EXCEPT !.lastname = Lee, !.description = Hi],
      [NoParams EXCEPT !.phone = PhoneDashed] }

PatchRequest(p) == [op |-> "PATCH", id |-> ConcId, p |-> p]
DeleteRequest == [op |-> "DELETE", id |-> ConcId, p |-> NoParams]

ConcStore ==
    Insert(Insert({}, 1, BaseBody), 2,
           [BaseBody EXCEPT !.name = Bob, !.email = MailZ])

InitConc ==
    /\ store = ConcStore
    /\ nextId = 3
    /\ issued = <<1, 2>>
    /\ resp = NoResponse
    /\ nreq = 0
    /\ today = NoDate
    /\ bresp = [status |-> 0, happy |-> {}]
    /\ creq \in {<<PatchRequest(p), r>> :
                    p \in ConcPatches,
                    r \in {PatchRequest(q) : q \in ConcPatches}
                          \cup {DeleteRequest}}
    /\ pc = <<"start", "start">>
    /\ snap = <<NoRow, NoRow>>
    /\ cstatus = <<0, 0>>
    /\ store0 = ConcStore

\* contact = db.query(Contact).filter(Contact.id == contact_id).first()
\* item = db.query(Contact).filter(Contact.id == contact_id).first()
load(s) ==
    /\ pc[s] = "start"
    /\ snap' = [snap EXCEPT ![s] = QueryFirst(store, creq[s].id)]
    /\ pc' = [pc EXCEPT ![s] = "loaded"]
    /\ UNCHANGED <<seqVars, bdayVars, creq, cstatus, store0>>

Answer(s, status) ==
    /\ cstatus' = [cstatus EXCEPT ![s] = status]
    /\ pc' = [pc EXCEPT ![s] = "done"]
    /\ UNCHANGED <<nextId, issued, resp, nreq, bdayVars, creq, snap, store0>>

\* update_contact from its assignments to db.commit()
update_commit(s) ==
    LET contact == snap[s]
        flushed == Flush(store, contact, ApplyParams(contact, creq[s].p))
    IN  /\ pc[s] = "loaded"
        /\ creq[s].op = "PATCH"
        /\ IF contact = NoRow \/ ~flushed.ok
               THEN /\ Answer(s, HTTP_500_INTERNAL_SERVER_ERROR)
                    /\ UNCHANGED store
               ELSE /\ Answer(s, HTTP_200_OK)
                    /\ store' = flushed.store

\* delete_contact: db.delete(item); db.commit()
delete_commit(s) ==
    LET item == snap[s]
    IN  /\ pc[s] = "loaded"
        /\ creq[s].op = "DELETE"
        /\ IF item = NoRow
               THEN /\ Answer(s, HTTP_500_INTERNAL_SERVER_ERROR)
                    /\ UNCHANGED store
               ELSE /\ Answer(s, HTTP_200_OK)
                    /\ store' = DeleteRow(store, item)

Load == \E s \in Sessions : load(s)
UpdateCommit == \E s \in Sessions : update_commit(s)
DeleteCommit == \E s \in Sessions : delete_commit(s)

NextConc == Load \/ UpdateCommit \/ DeleteCommit

SpecConc == InitConc /\ [][NextConc]_vars

\* the table after one request served alone
Alone(st, r) ==
    LET row == QueryFirst(st, r.id)
    IN  IF row = NoRow THEN st
        ELSE IF r.op = "DELETE" THEN {x \in st : x.id # r.id}
        ELSE {IF x.id = r.id
                 THEN [f \in DOMAIN x |->
                         IF f \in FieldNames /\ ParamGiven(r.p, f)
                             THEN r.p[f] ELSE x[f]]
                 ELSE x : x \in st}

SerialOutcomes ==
    { Alone(Alone(store0, creq[1]), creq[2]),
      Alone(Alone(store0, creq[2]), creq[1]) }

AllDone == \A s \in Sessions : pc[s] = "done"

BothPatch == \A s \in Sessions : creq[s].op = "PATCH"

\* what the claim says of the fields: a field both PATCHes supply holds one
\* of the two supplied values, a field one PATCH supplies holds that value
FieldsLastWriter ==
    BothPatch =>
        /\ ConcId \in Ids(store)
        /\ \A f \in FieldNames :
              LET a == ParamGiven(creq[1].p, f)
                  b == ParamGiven(creq[2].p, f)
                  v == RowOf(store, ConcId)[f]
              IN  /\ (a /\ b) => v \in {creq[1].p[f], creq[2].p[f]}
                  /\ (a /\ ~b) => v = creq[1].p[f]
                  /\ (b /\ ~a) => v = creq[2].p[f]
                  /\ (~a /\ ~b) => v = RowOf(store0, ConcId)[f]

DeletedStaysDeleted ==
    \A s \in Sessions :
        (pc[s] = "done" /\ creq[s].op = "DELETE" /\ cstatus[s] = HTTP_200_OK)
            => creq[s].id \notin Ids(store)

OthersUntouched ==
    \A r \in store0 : r.id # ConcId => r \in store

\* C10 as stated: every interleaving of the two requests leaves the store in
\* a state that some serial order of the two also produces; a field written
\* by both PATCHes holds one of the two supplied values, a field written by
\* one PATCH keeps that value, a deleted contact is never present again.
C10_Serializable ==
    /\ DeletedStaysDeleted
    /\ AllDone => (store \in SerialOutcomes /\ FieldsLastWriter)

\* C10 as amended: every interleaving leaves each field of the contact with
\* the value some serial order of the two requests gives that field, the
\* order possibly differing from field to field; a field written by both
\* PATCHes holds one of the two supplied values, a field written by one PATCH
\* keeps that value, a deleted contact is never present again, and the other
\* contacts are untouched.
C10_LastWriterPerField ==
    /\ DeletedStaysDeleted
    /\ OthersUntouched
    /\ AllDone =>
          /\ FieldsLastWriter
          /\ Ids(store) \in {Ids(o) : o \in SerialOutcomes}
          /\ ConcId \in Ids(store) =>
                \A f \in FieldNames :
                    \E o \in SerialOutcomes :
                        /\ ConcId \in Ids(o)
                        /\ RowOf(store, ConcId)[f] = RowOf(o, ConcId)[f]

\* C10 witness: both PATCHes committed and the record is one that no serial
\* order of the two produces.
C10_Witness ==
    /\ AllDone
    /\ BothPatch
    /\ \A s \in Sessions : cstatus[s] = HTTP_200_OK
    /\ store \notin SerialOutcomes

=============================================================================
